---------------------------- MODULE Spec2Model ----------------------------
(***************************************************************************)
(* MP4 Splitter: the split-point table (mp4splitter/split_points_table.py),*)
(* the export driver (mp4splitter/video_splitter.py) and the main-window   *)
(* handlers that connect them (mp4splitter/main_window.py).                *)
(*                                                                         *)
(* Conventions.  Rows of the table are numbered from 1 here (Python: from  *)
(* 0); columns keep their Python numbers (1 = Start, 2 = End,              *)
(* 3 = Duration).  A Python "int or None" is Some(n) or None.  A text is   *)
(* the sequence of its characters, each a one-character string.            *)
(***************************************************************************)
EXTENDS Integers, Sequences, FiniteSets, TLC

VARIABLES
    split_points,         \* SplitPointsTable.split_points
    items,                \* the table's cell texts: items[row][column]
    current_video_path,   \* MainWindow.current_video_path
    output_dir,           \* MainWindow.output_dir
    start_splitting_btn,  \* MainWindow.start_splitting_btn.isEnabled()
    video_path,           \* VideoSplitter.video_path
    vs_output_dir,        \* VideoSplitter.output_dir
    dir_exists,           \* os.path.exists(VideoSplitter.output_dir)
    pc,                   \* where the control thread is
    selected_points,      \* split_video's argument: rows of split_points
    i,                    \* split_video's loop index (Python: from 0)
    video,                \* split_video / get_video_info's local `video`
    trace,                \* signals emitted and encoder calls of this pass
    files                 \* output files written by this pass

tableVars  == <<split_points, items>>
windowVars == <<current_video_path, output_dir, start_splitting_btn>>
driverVars == <<video_path, vs_output_dir, dir_exists>>
exportVars == <<pc, selected_points, i, video, trace, files>>
vars == <<split_points, items, current_video_path, output_dir,
          start_splitting_btn, video_path, vs_output_dir, dir_exists,
          pc, selected_points, i, video, trace, files>>

---------------------------------------------------------------------------
(* Bounds of the model.                                                    *)

\* The longest list of split points the model builds.
MaxPoints == 2

\* The longest list built by "Add Split Point" alone (SpecAdd).
MaxAdds == 4

---------------------------------------------------------------------------
(* Python values.                                                          *)

None == <<>>
Some(n) == <<n>>
Val(o) == o[1]

---------------------------------------------------------------------------
(* Time texts: format_time and parse_time.                                 *)

DigitChars == <<"0", "1", "2", "3", "4", "5", "6", "7", "8", "9">>

DigitChar(d) == DigitChars[d + 1]

IsDigit(c) == \E d \in 0..9 : DigitChars[d + 1] = c

DigitVal(c) == CHOOSE d \in 0..9 : DigitChars[d + 1] = c

\* str(n) for n >= 0.
RECURSIVE Dec(_)
Dec(n) == IF n < 10 THEN <<DigitChar(n)>>
          ELSE Dec(n \div 10) \o <<DigitChar(n % 10)>>

RECURSIVE PadLeft(_, _)
PadLeft(s, width) == IF Len(s) >= width THEN s
                     ELSE PadLeft(<<"0">> \o s, width)

\* f"{n:0{width}d}": zero padding goes between the sign and the digits, and
\* the sign counts in the width.
ZeroPad(n, width) ==
    IF n < 0 THEN <<"-">> \o PadLeft(Dec(-n), width - 1)
    ELSE PadLeft(Dec(n), width)

\* The text format_time returns for None.
ZeroText == <<"0","0",":","0","0",":","0","0",".","0","0","0">>

\* A mutant of format_time: the minutes field is not reduced modulo 60.
format_time_MinutesNotReduced(ms) ==
    IF ms = None THEN ZeroText
    ELSE LET seconds == Val(ms) \div 1000
             minutes == seconds \div 60
             hours   == minutes \div 60
         IN  ZeroPad(hours, 2) \o <<":">> \o ZeroPad(minutes, 2) \o <<":">>
                \o ZeroPad(seconds % 60, 2) \o <<".">>
                \o ZeroPad(Val(ms) % 1000, 3)

\* SplitPointsTable.format_time.  // and % are Python's: the quotient is
\* rounded down and the remainder is never negative, as \div and % here.
format_time(ms) ==
    IF ms = None THEN ZeroText
    ELSE LET seconds == Val(ms) \div 1000
             minutes == seconds \div 60
             hours   == minutes \div 60
         IN  ZeroPad(hours, 2) \o <<":">> \o ZeroPad(minutes % 60, 2) \o <<":">>
                \o ZeroPad(seconds % 60, 2) \o <<".">>
                \o ZeroPad(Val(ms) % 1000, 3)

\* str.split(sep) for a one-character sep: the pieces between the separators.
RECURSIVE Split(_, _)
Split(s, sep) ==
    IF \A k \in 1..Len(s) : s[k] # sep THEN <<s>>
    ELSE LET k == CHOOSE j \in 1..Len(s) :
                     s[j] = sep /\ \A h \in 1..(j - 1) : s[h] # sep
         IN  <<SubSeq(s, 1, k - 1)>> \o Split(SubSeq(s, k + 1, Len(s)), sep)

RECURSIVE DecVal(_)
DecVal(s) == IF Len(s) = 0 THEN 0
             ELSE 10 * DecVal(SubSeq(s, 1, Len(s) - 1)) + DigitVal(s[Len(s)])

ValueError == [ok |-> FALSE, value |-> 0]

Parsed(n) == [ok |-> TRUE, value |-> n]

\* int(s), for texts over digits, signs and other printable characters: an
\* optional sign, then one digit or more.
int(s) ==
    LET signed == Len(s) > 0 /\ s[1] \in {"-", "+"}
        digits == IF signed THEN SubSeq(s, 2, Len(s)) ELSE s
    IN  IF Len(digits) = 0 \/ \E k \in 1..Len(digits) : ~IsDigit(digits[k])
        THEN ValueError
        ELSE Parsed(IF signed /\ s[1] = "-" THEN -DecVal(digits)
                    ELSE DecVal(digits))

\* SplitPointsTable.parse_time: either unpacking or any int() raises
\* ValueError.
parse_time(time_str) ==
    LET parts == Split(time_str, ":")
    IN  IF Len(parts) # 3 THEN ValueError
        ELSE LET rest == Split(parts[3], ".")
             IN  IF Len(rest) # 2 THEN ValueError
                 ELSE LET hours        == int(parts[1])
                          minutes      == int(parts[2])
                          seconds      == int(rest[1])
                          milliseconds == int(rest[2])
                      IN  IF hours.ok /\ minutes.ok /\ seconds.ok
                                /\ milliseconds.ok
                          THEN Parsed((hours.value * 3600 + minutes.value * 60
                                         + seconds.value) * 1000
                                      + milliseconds.value)
                          ELSE ValueError

---------------------------------------------------------------------------
(* The split-point table.                                                  *)

\* SplitPoint.__init__: a new point is selected.
SplitPoint(start_time, end_time) ==
    [start_time |-> start_time, end_time |-> end_time, selected |-> TRUE]

\* SplitPoint.duration.
duration(point) ==
    IF point.end_time = None \/ point.start_time = None THEN 0
    ELSE Val(point.end_time) - Val(point.start_time)

\* SplitPointsTable.update_table: the cell texts of every row.
update_table(points) ==
    [row \in 1..Len(points) |->
        <<format_time(points[row].start_time),
          format_time(points[row].end_time),
          format_time(Some(duration(points[row])))>>]

\* A mutant of add_split_point: the new point starts at the position clicked.
add_split_point_StartAtCurrent(points, current_time) ==
    Append(points, SplitPoint(IF points = <<>> THEN Some(0)
                              ELSE Some(current_time),
                              Some(current_time)))

\* A mutant of add_split_point: the previous point is closed at the position
\* clicked and the new point is left open.
add_split_point_ClosesPrevious(points, current_time) ==
    IF points = <<>> THEN <<SplitPoint(Some(0), Some(current_time))>>
    ELSE Append([points EXCEPT ![Len(points)].end_time = Some(current_time)],
                SplitPoint(Some(current_time), None))

\* SplitPointsTable.add_split_point, on the list.  The assignment to the
\* previous point's end_time writes the value just read from it.
add_split_point(points, current_time) ==
    LET start_time == IF points = <<>> THEN Some(0)
                      ELSE points[Len(points)].end_time
        appended   == Append(points, SplitPoint(start_time, Some(current_time)))
    IN  IF Len(appended) > 1
        THEN [appended EXCEPT ![Len(appended) - 1].end_time = start_time]
        ELSE appended

\* A mutant of set_boundary: the neighbour's boundary is not updated.
set_boundary_NoNeighbour(points, row, column, time_ms) ==
    IF column = 1 THEN [points EXCEPT ![row].start_time = Some(time_ms)]
    ELSE [points EXCEPT ![row].end_time = Some(time_ms)]

\* A mutant of set_boundary: an edited row is selected again.
set_boundary_Reselects(points, row, column, time_ms) ==
    LET edited ==
            IF column = 1
            THEN LET own == [points EXCEPT ![row].start_time = Some(time_ms)]
                 IN  IF row > 1
                     THEN [own EXCEPT ![row - 1].end_time = Some(time_ms)]
                     ELSE own
            ELSE LET own == [points EXCEPT ![row].end_time = Some(time_ms)]
                 IN  IF row < Len(points)
                     THEN [own EXCEPT ![row + 1].start_time = Some(time_ms)]
                     ELSE own
    IN  [edited EXCEPT ![row].selected = TRUE]

\* SplitPointsTable.cell_edited's assignments once parse_time has returned
\* time_ms.
set_boundary(points, row, column, time_ms) ==
    IF column = 1
    THEN LET own == [points EXCEPT ![row].start_time = Some(time_ms)]
         IN  IF row > 1 THEN [own EXCEPT ![row - 1].end_time = Some(time_ms)]
             ELSE own
    ELSE LET own == [points EXCEPT ![row].end_time = Some(time_ms)]
         IN  IF row < Len(points)
             THEN [own EXCEPT ![row + 1].start_time = Some(time_ms)]
             ELSE own

\* SplitPointsTable.toggle_selection, on the list.
toggle_selection(points, row, checked) ==
    IF row <= Len(points) THEN [points EXCEPT ![row].selected = checked]
    ELSE points

\* A mutant of get_selected_points: every row, selected or not.
get_selected_points_All(points) == [k \in 1..Len(points) |-> k]

\* SplitPointsTable.get_selected_points: the rows of the selected points, in
\* the list's order (the Python list holds the same objects as split_points).
RECURSIVE get_selected_points(_)
get_selected_points(points) ==
    IF points = <<>> THEN <<>>
    ELSE LET front == get_selected_points(SubSeq(points, 1, Len(points) - 1))
         IN  IF points[Len(points)].selected THEN Append(front, Len(points))
             ELSE front

---------------------------------------------------------------------------
(* What the user and the environment supply.                               *)

\* The one video the user opens, and its duration in milliseconds.
VideoFile == [stem |-> "clip", ext |-> "mp4"]

VideoDurationMs == 90 * 1000

\* The directory the user picks.
OutDir == "out"

\* QMediaPlayer.position() when "Add Split Point" is clicked: 0 with no
\* video loaded.
Positions == {0, 30 * 1000}

position_now == IF current_video_path = None THEN {0} ELSE Positions

\* The positions of the runs that only add points (SpecAdd).
AddPositions == {0, 30 * 1000, 60 * 1000}

\* Texts the user types into a Start or End cell.
CanonicalText == <<"0","0",":","0","1",":","0","0",".","0","0","0">>  \* 60000

NegativeText == <<"-","1",":","5","9",":","5","9",".","9","9","5">>  \* -5

ShortFieldsText == <<"0",":","0",":","3","0",".","0">>          \* 30000

MalformedTexts ==
    { <<"0","0",":","0","0",":","3","0">>,                      \* no '.'
      <<"0","0",":","3","0",".","0","0","0">>,                  \* two fields
      <<"0","0",":","x","x",":","3","0",".","0","0","0">> }     \* not a number

EditTexts == {CanonicalText, NegativeText, ShortFieldsText} \cup MalformedTexts

\* The values parse_time returns for the texts it accepts.
EditValues == {parse_time(t).value : t \in {s \in EditTexts : parse_time(s).ok}}

\* The values of the runs that format and parse (SpecTime): around the
\* carries into seconds, minutes, hours and a third hours digit.
TimeValues ==
    {0, 1, 999, 1000, 59999, 60000, 3599999, 3600000, 3661001,
     35999999, 36000000, 359999999, 360000000}

---------------------------------------------------------------------------
(* The export driver's signals and file names.                             *)

NoName == [stem |-> "", n |-> 0, ext |-> ""]

\* output_filename = f"{base_name}_split_{i+1}.mp4"
output_filename(path, index) ==
    [stem |-> path.stem, n |-> index + 1, ext |-> "mp4"]

Event(ev, n, total, name, start_ms, end_ms) ==
    [ev |-> ev, n |-> n, total |-> total, name |-> name,
     start_ms |-> start_ms, end_ms |-> end_ms]

segment_started(n, name) == Event("SegmentStarted", n, 0, name, 0, 0)

progress_updated(current, total) == Event("Progress", current, total, NoName, 0, 0)

splitting_completed == Event("Completed", 0, 0, NoName, 0, 0)

error_occurred == Event("Error", 0, 0, NoName, 0, 0)

\* video.subclipped(start_sec, end_sec) and segment.write_videofile(path):
\* the times are kept in milliseconds (Python passes them / 1000).
write_videofile(n, name, start_ms, end_ms) ==
    Event("Encode", n, 0, name, start_ms, end_ms)

---------------------------------------------------------------------------
(* The state after MainWindow.__init__.                                    *)

Init ==
    /\ split_points = <<>>
    /\ items = <<>>
    /\ current_video_path = None
    /\ output_dir = None
    /\ start_splitting_btn = FALSE
    /\ video_path = None
    /\ vs_output_dir = None
    /\ dir_exists = FALSE
    /\ pc = "idle"
    /\ selected_points = <<>>
    /\ i = 0
    /\ video = "none"
    /\ trace = <<>>
    /\ files = {}

\* MainWindow.update_splitting_button_state, given the fields it reads.
update_splitting_button_state(path, dir, points) ==
    path # None /\ dir # None /\ Len(points) > 0

---------------------------------------------------------------------------
(* The user's actions on the table.                                        *)

\* "Add Split Point" clicked: VideoPlayer.add_split_point emits the position
\* and SplitPointsTable.add_split_point receives it.
AddSplitPoint(current_time) ==
    /\ pc = "idle"
    /\ split_points' = add_split_point(split_points, current_time)
    /\ items' = update_table(split_points')
    /\ UNCHANGED <<windowVars, driverVars, exportVars>>

\* cell_edited's try block once parse_time has returned time_ms: the
\* boundaries are set and the table is shown again.
BoundaryEdited(row, column, time_ms) ==
    /\ pc = "idle"
    /\ row \in 1..Len(split_points)
    /\ column \in {1, 2}
    /\ split_points' = set_boundary(split_points, row, column, time_ms)
    /\ items' = update_table(split_points')
    /\ UNCHANGED <<windowVars, driverVars, exportVars>>

\* cell_edited's except clause: parse_time has raised ValueError, and the
\* table is shown again from the list, which is as it was.
EditRejected(row, column) ==
    /\ pc = "idle"
    /\ row \in 1..Len(split_points)
    /\ column \in {1, 2}
    /\ split_points' = split_points
    /\ items' = update_table(split_points')
    /\ UNCHANGED <<windowVars, driverVars, exportVars>>

\* The user has typed time_str into cell (row, column): cellChanged calls
\* SplitPointsTable.cell_edited.
CellEdited(row, column, time_str) ==
    LET time_ms == parse_time(time_str)
    IN  IF time_ms.ok THEN BoundaryEdited(row, column, time_ms.value)
        ELSE EditRejected(row, column)

\* The user has clicked the checkbox of a row: stateChanged carries the
\* checkbox's new state.
ToggleSelection(row) ==
    /\ pc = "idle"
    /\ row \in 1..Len(split_points)
    /\ split_points' =
           toggle_selection(split_points, row, ~split_points[row].selected)
    /\ UNCHANGED <<items, windowVars, driverVars, exportVars>>

---------------------------------------------------------------------------
(* The main window's handlers.                                             *)

\* MainWindow.open_video with a file chosen.  VideoSplitter.get_video_info
\* opens the file and closes it after reading its attributes; when
\* VideoFileClip raises there is no clip, and the error signal runs
\* show_error, whose button state the handler's last line then overwrites.
\* The list is replaced by an empty one.
OpenVideo(opened) ==
    /\ pc = "idle"
    /\ current_video_path' = Some(VideoFile)
    /\ video_path' = Some(VideoFile)
    /\ video' = IF opened THEN "closed" ELSE "none"
    /\ split_points' = <<>>
    /\ items' = update_table(split_points')
    /\ start_splitting_btn' =
           update_splitting_button_state(current_video_path', output_dir,
                                         split_points')
    /\ UNCHANGED <<output_dir, vs_output_dir, dir_exists, pc, selected_points,
                   i, trace, files>>

\* MainWindow.select_output_directory with a directory chosen, and
\* VideoSplitter.set_output_dir: the directory is made when it does not
\* exist.  When os.makedirs raises, the handler ends there, before
\* update_splitting_button_state.
SelectOutputDirectory(exists, made) ==
    /\ pc = "idle"
    /\ output_dir' = Some(OutDir)
    /\ vs_output_dir' = Some(OutDir)
    /\ dir_exists' = (exists \/ made)
    /\ start_splitting_btn' =
           IF exists \/ made
           THEN update_splitting_button_state(current_video_path, output_dir',
                                              split_points)
           ELSE start_splitting_btn
    /\ UNCHANGED <<tableVars, current_video_path, video_path, exportVars>>

\* A mutant of split_video_enter: the unset end of the last point becomes
\* the duration in seconds.
split_video_enter_EndInSeconds(points, rows, opened) ==
    IF video_path = None \/ vs_output_dir = None \/ rows = <<>>
    THEN <<"done", video, <<error_occurred>>, points>>
    ELSE IF ~opened
    THEN <<"done", "none", <<error_occurred>>, points>>
    ELSE LET last == rows[Len(rows)]
         IN  <<"loop", "open", <<>>,
               IF points[last].end_time = None
               THEN [points EXCEPT
                        ![last].end_time = Some(VideoDurationMs \div 1000)]
               ELSE points>>

\* A mutant of split_video_enter: the video is opened before the checks.
split_video_enter_OpensFirst(points, rows, opened) ==
    IF ~opened
    THEN <<"done", "none", <<error_occurred>>, points>>
    ELSE IF video_path = None \/ vs_output_dir = None \/ rows = <<>>
    THEN <<"done", "open", <<error_occurred>>, points>>
    ELSE LET last == rows[Len(rows)]
         IN  <<"loop", "open", <<>>,
               IF points[last].end_time = None
               THEN [points EXCEPT ![last].end_time = Some(VideoDurationMs)]
               ELSE points>>

\* VideoSplitter.split_video up to its loop: the two checks, then
\* VideoFileClip(self.video_path), then the end of the last point when it is
\* None.  The value is <<pc, video, trace, points>> after it.
split_video_enter(points, rows, opened) ==
    IF video_path = None \/ vs_output_dir = None \/ rows = <<>>
    THEN <<"done", video, <<error_occurred>>, points>>
    ELSE IF ~opened
    THEN <<"done", "none", <<error_occurred>>, points>>
    ELSE LET last == rows[Len(rows)]
         IN  <<"loop", "open", <<>>,
               IF points[last].end_time = None
               THEN [points EXCEPT ![last].end_time = Some(VideoDurationMs)]
               ELSE points>>

\* "Start Splitting" clicked: MainWindow.start_splitting.  It returns at once
\* without a video or a directory, or with no point selected (after a
\* warning); otherwise it disables the button and calls split_video.  An
\* error signal runs show_error, which enables the button again.
StartSplitting(opened) ==
    /\ pc = "idle"
    /\ start_splitting_btn
    /\ current_video_path # None
    /\ output_dir # None
    /\ get_selected_points(split_points) # <<>>
    /\ LET entered == split_video_enter(split_points,
                                        get_selected_points(split_points),
                                        opened)
       IN  /\ pc' = entered[1]
           /\ video' = entered[2]
           /\ trace' = entered[3]
           /\ split_points' = entered[4]
           /\ start_splitting_btn' = (entered[1] = "done")
    /\ selected_points' = get_selected_points(split_points)
    /\ i' = 0
    /\ files' = {}
    /\ UNCHANGED <<items, current_video_path, output_dir, driverVars>>

\* VideoSplitter.split_video called by a caller of its own, with the points
\* of the given rows: nothing disables the button first, and show_error
\* enables it when the call ends with the error signal.
SplitVideoCalled(rows, opened) ==
    /\ pc = "idle"
    /\ LET entered == split_video_enter(split_points, rows, opened)
       IN  /\ pc' = entered[1]
           /\ video' = entered[2]
           /\ trace' = entered[3]
           /\ split_points' = entered[4]
           /\ start_splitting_btn' =
                  IF entered[1] = "done" THEN TRUE ELSE start_splitting_btn
    /\ selected_points' = rows
    /\ i' = 0
    /\ files' = {}
    /\ UNCHANGED <<items, current_video_path, output_dir, driverVars>>

\* VideoSplitter.set_video_path.
SetVideoPath ==
    /\ pc = "idle"
    /\ video_path' = Some(VideoFile)
    /\ UNCHANGED <<tableVars, windowVars, vs_output_dir, dir_exists,
                   exportVars>>

\* VideoSplitter.set_output_dir: the field is assigned, then the directory
\* is made when it does not exist, which may raise.
SetOutputDir(exists, made) ==
    /\ pc = "idle"
    /\ vs_output_dir' = Some(OutDir)
    /\ dir_exists' = (exists \/ made)
    /\ UNCHANGED <<tableVars, windowVars, video_path, exportVars>>

\* A caller of the driver appends SplitPoint(start_time), whose end_time is
\* the constructor's default None, after the points already in the list.
AddOpenPoint ==
    /\ pc = "idle"
    /\ split_points' =
           Append(split_points,
                  SplitPoint(IF split_points = <<>> THEN Some(0)
                             ELSE split_points[Len(split_points)].end_time,
                             None))
    /\ items' = update_table(split_points')
    /\ UNCHANGED <<windowVars, driverVars, exportVars>>

\* "Start Splitting" clicked when start_splitting returns at once.
StartSplittingRefused ==
    /\ pc = "idle"
    /\ start_splitting_btn
    /\ \/ current_video_path = None
       \/ output_dir = None
       \/ get_selected_points(split_points) = <<>>
    /\ UNCHANGED vars

\* A mutant of segment_signals: the progress signal counts the segment that
\* is starting as done.
segment_signals_CountsStarted(index, total_segments) ==
    << segment_started(index + 1, output_filename(Val(video_path), index)),
       progress_updated(index + 1, total_segments) >>

\* What one pass of split_video's loop emits before it calls the encoder.
segment_signals(index, total_segments) ==
    << segment_started(index + 1, output_filename(Val(video_path), index)),
       progress_updated(index, total_segments) >>

\* The encoder call of one pass of the loop.
segment_encode(points, rows, index) ==
    write_videofile(index + 1, output_filename(Val(video_path), index),
                    Val(points[rows[index + 1]].start_time),
                    Val(points[rows[index + 1]].end_time))

\* One pass of split_video's loop whose subclipped and write_videofile
\* return: the output file is written, which takes a directory to write it
\* in.
SegmentWritten ==
    /\ pc = "loop"
    /\ i < Len(selected_points)
    /\ dir_exists
    /\ trace' = trace \o segment_signals(i, Len(selected_points))
                      \o <<segment_encode(split_points, selected_points, i)>>
    /\ files' = files \cup {output_filename(Val(video_path), i)}
    /\ i' = i + 1
    /\ UNCHANGED <<tableVars, windowVars, driverVars, pc, selected_points,
                   video>>

\* A mutant of SegmentFailed: the error is signalled and the loop goes on
\* with the next segment.
SegmentFailed_GoesOn ==
    /\ pc = "loop"
    /\ i < Len(selected_points)
    /\ trace' = trace \o segment_signals(i, Len(selected_points))
                      \o <<segment_encode(split_points, selected_points, i),
                           error_occurred>>
    /\ i' = i + 1
    /\ start_splitting_btn' = TRUE
    /\ UNCHANGED <<tableVars, current_video_path, output_dir, driverVars,
                   pc, selected_points, video, files>>

\* One pass of the loop whose subclipped or write_videofile raises: the
\* except clause emits the error signal, show_error enables the button, and
\* split_video returns.
SegmentFailed ==
    /\ pc = "loop"
    /\ i < Len(selected_points)
    /\ trace' = trace \o segment_signals(i, Len(selected_points))
                      \o <<segment_encode(split_points, selected_points, i),
                           error_occurred>>
    /\ pc' = "done"
    /\ start_splitting_btn' = TRUE
    /\ UNCHANGED <<tableVars, current_video_path, output_dir, driverVars,
                   selected_points, i, video, files>>

\* After the loop: video.close(), the last progress signal and the
\* completion signal; splitting_completed enables the button.
SplittingCompleted ==
    /\ pc = "loop"
    /\ i = Len(selected_points)
    /\ video' = "closed"
    /\ trace' = trace \o <<progress_updated(Len(selected_points),
                                            Len(selected_points)),
                           splitting_completed>>
    /\ pc' = "done"
    /\ start_splitting_btn' = TRUE
    /\ UNCHANGED <<tableVars, current_video_path, output_dir, driverVars,
                   selected_points, i, files>>

\* split_video and start_splitting return to the event loop; the record of
\* the pass is dropped.
ReturnToEventLoop ==
    /\ pc = "done"
    /\ pc' = "idle"
    /\ selected_points' = <<>>
    /\ i' = 0
    /\ trace' = <<>>
    /\ files' = {}
    /\ UNCHANGED <<tableVars, windowVars, driverVars, video>>

---------------------------------------------------------------------------
(* The program.                                                            *)

AddSplitPointStep ==
    /\ Len(split_points) < MaxPoints
    /\ \E current_time \in position_now : AddSplitPoint(current_time)

CellEditedStep ==
    \E row \in 1..MaxPoints + 1, column \in {1, 2}, time_str \in EditTexts :
        CellEdited(row, column, time_str)

ToggleSelectionStep == \E row \in 1..MaxPoints + 1 : ToggleSelection(row)

OpenVideoStep == \E opened \in BOOLEAN : OpenVideo(opened)

SelectOutputDirectoryStep ==
    \E exists \in BOOLEAN, made \in BOOLEAN : SelectOutputDirectory(exists, made)

StartSplittingStep == \E opened \in BOOLEAN : StartSplitting(opened)

Next ==
    \/ AddSplitPointStep
    \/ CellEditedStep
    \/ ToggleSelectionStep
    \/ OpenVideoStep
    \/ SelectOutputDirectoryStep
    \/ StartSplittingStep
    \/ StartSplittingRefused
    \/ SegmentWritten
    \/ SegmentFailed
    \/ SplittingCompleted
    \/ ReturnToEventLoop

Spec == Init /\ [][Next]_vars

---------------------------------------------------------------------------
(* Runs that only add points, from the empty list with a video loaded.     *)

AddInit ==
    /\ split_points = <<>>
    /\ items = <<>>
    /\ current_video_path = Some(VideoFile)
    /\ output_dir = None
    /\ start_splitting_btn = FALSE
    /\ video_path = Some(VideoFile)
    /\ vs_output_dir = None
    /\ dir_exists = FALSE
    /\ pc = "idle"
    /\ selected_points = <<>>
    /\ i = 0
    /\ video = "closed"
    /\ trace = <<>>
    /\ files = {}

AddNext ==
    /\ Len(split_points) < MaxAdds
    /\ \E current_time \in AddPositions : AddSplitPoint(current_time)

SpecAdd == AddInit /\ [][AddNext]_vars

---------------------------------------------------------------------------
(* Runs of the table alone: points added, cells edited and checkboxes      *)
(* clicked, from the empty list with a video loaded.                       *)

TableNext ==
    \/ AddSplitPointStep
    \/ CellEditedStep
    \/ ToggleSelectionStep

SpecTable == AddInit /\ [][TableNext]_vars

---------------------------------------------------------------------------
(* Runs of the export driver alone: a caller sets its fields through       *)
(* set_video_path and set_output_dir, builds the list (the last point may  *)
(* be left open) and calls split_video with the selected points.           *)

LastPointClosed ==
    IF split_points = <<>> THEN TRUE
    ELSE split_points[Len(split_points)].end_time # None

DriverAddStep ==
    /\ Len(split_points) < MaxPoints
    /\ LastPointClosed
    /\ \E current_time \in Positions : AddSplitPoint(current_time)

AddOpenPointStep ==
    /\ Len(split_points) < MaxPoints
    /\ LastPointClosed
    /\ AddOpenPoint

SetOutputDirStep ==
    \E exists \in BOOLEAN, made \in BOOLEAN : SetOutputDir(exists, made)

SplitVideoCalledStep ==
    \E opened \in BOOLEAN :
        SplitVideoCalled(get_selected_points(split_points), opened)

DriverNext ==
    \/ SetVideoPath
    \/ SetOutputDirStep
    \/ DriverAddStep
    \/ AddOpenPointStep
    \/ ToggleSelectionStep
    \/ SplitVideoCalledStep
    \/ SegmentWritten
    \/ SegmentFailed
    \/ SplittingCompleted
    \/ ReturnToEventLoop

SpecDriver == Init /\ [][DriverNext]_vars

---------------------------------------------------------------------------
(* Runs that format and parse: one row whose cells the user retypes with   *)
(* texts in the table's own format.                                        *)

TimeInit ==
    /\ \E m \in TimeValues :
           split_points = add_split_point(<<>>, m)
    /\ items = update_table(split_points)
    /\ current_video_path = Some(VideoFile)
    /\ output_dir = None
    /\ start_splitting_btn = FALSE
    /\ video_path = Some(VideoFile)
    /\ vs_output_dir = None
    /\ dir_exists = FALSE
    /\ pc = "idle"
    /\ selected_points = <<>>
    /\ i = 0
    /\ video = "closed"
    /\ trace = <<>>
    /\ files = {}

TimeNext ==
    \E column \in {1, 2}, m \in TimeValues :
        CellEdited(1, column, format_time(Some(m)))

SpecTime == TimeInit /\ [][TimeNext]_vars

---------------------------------------------------------------------------
(* Properties of the split-point table.                                    *)

\* C1.  Gapless chain: in every state reached by adding points and editing
\* boundaries (edits that parse and edits that do not), two consecutive
\* intervals whose shared boundaries are both set have intervals[k].end_time
\* equal to intervals[k+1].start_time.
GaplessChain ==
    \A k \in 1..(Len(split_points) - 1) :
        (split_points[k].end_time # None
            /\ split_points[k + 1].start_time # None)
        => Val(split_points[k].end_time) = Val(split_points[k + 1].start_time)

\* C1's case: two intervals whose shared boundary was set by an edit (no
\* position in Positions is 60000).
ChainAfterEdit ==
    /\ Len(split_points) = 2
    /\ split_points[1].end_time = Some(60000)
    /\ split_points[2].start_time = Some(60000)

\* The list that adding the positions ts, in order, to the empty list is
\* claimed to give: interval j is {ts[j-1], ts[j]}, with 0 before ts[1], and
\* every interval is selected.
ChainOf(ts) ==
    [j \in 1..Len(ts) |->
        [start_time |-> IF j = 1 THEN Some(0) ELSE Some(ts[j - 1]),
         end_time   |-> Some(ts[j]),
         selected   |-> TRUE]]

\* The end times of a list whose ends are all set.
EndsOf(points) == [j \in 1..Len(points) |-> Val(points[j].end_time)]

\* C2.  Adding k positions t_1..t_k to the empty list gives k intervals, all
\* selected, interval j being {t_(j-1), t_j} with t_0 = 0: the list is always
\* the chain of its own end times, and each addition lengthens it by one
\* interval that ends at the position added, the earlier ones kept.
AddOnlyGivesChain ==
    /\ [](/\ \A j \in 1..Len(split_points) : split_points[j].end_time # None
          /\ split_points = ChainOf(EndsOf(split_points)))
    /\ [][\A t \in AddPositions :
            AddSplitPoint(t)
            => /\ Len(split_points') = Len(split_points) + 1
               /\ EndsOf(split_points') = Append(EndsOf(split_points), t)]_vars

\* C2's case: the positions 30000 and 60000 added to the empty list.
TwoPointsAdded ==
    split_points = <<[start_time |-> Some(0), end_time |-> Some(30000),
                      selected |-> TRUE],
                     [start_time |-> Some(30000), end_time |-> Some(60000),
                      selected |-> TRUE]>>

\* C3 as claimed.  Adding a position to a non-empty list sets the previous
\* last interval's end to the position and appends {position, unset}; adding
\* it to the empty list appends {0, position}.
AddPointClosesPrevious ==
    [][\A t \in Positions :
        AddSplitPoint(t)
        => IF split_points = <<>>
           THEN split_points' = <<SplitPoint(Some(0), Some(t))>>
           ELSE /\ Len(split_points') = Len(split_points) + 1
                /\ split_points'[Len(split_points)].end_time = Some(t)
                /\ split_points'[Len(split_points) + 1].start_time = Some(t)
                /\ split_points'[Len(split_points) + 1].end_time = None]_vars

\* C3 as amended.  Adding a position to a non-empty list leaves every
\* interval of the list as it was, the previous last one's end included, and
\* appends the selected interval {previous last end, position}; adding it to
\* the empty list appends {0, position}.
AddPointAppends ==
    [][\A t \in Positions :
        AddSplitPoint(t)
        => split_points' =
              Append(split_points,
                     [start_time |-> IF split_points = <<>> THEN Some(0)
                                     ELSE split_points[Len(split_points)].end_time,
                      end_time   |-> Some(t),
                      selected   |-> TRUE])]_vars

\* C3's case: 30000 was added to a list whose last interval ended at 0, and
\* that interval still ends at 0.
AppendedAfterClosedPoint ==
    /\ Len(split_points) = 2
    /\ split_points[1].end_time = Some(0)
    /\ split_points[2].start_time = Some(0)
    /\ split_points[2].end_time = Some(30000)

\* C4 as claimed.  Every interval has start_time >= 0 and, when its end is
\* set, end_time >= start_time.
BoundariesOrdered ==
    \A k \in 1..Len(split_points) :
        /\ split_points[k].start_time # None
        /\ Val(split_points[k].start_time) >= 0
        /\ split_points[k].end_time # None
           => Val(split_points[k].end_time) >= Val(split_points[k].start_time)

\* C5.  An edit whose text parses to v sets the named boundary of the row to
\* v, the previous row's end as well when the start of a row after the first
\* is edited, the next row's start as well when the end of a row before the
\* last is edited; every other boundary, every selected flag and the length
\* of the list stay as they were.
EditSetsBoundaryAndNeighbour ==
    [][\A row \in 1..Len(split_points), column \in {1, 2}, ms \in EditValues :
        BoundaryEdited(row, column, ms)
        => LET v == Some(ms)
           IN  /\ Len(split_points') = Len(split_points)
               /\ \A k \in 1..Len(split_points) :
                    /\ split_points'[k].selected = split_points[k].selected
                    /\ split_points'[k].start_time =
                         IF (column = 1 /\ k = row) \/ (column = 2 /\ k = row + 1)
                         THEN v ELSE split_points[k].start_time
                    /\ split_points'[k].end_time =
                         IF (column = 2 /\ k = row) \/ (column = 1 /\ k = row - 1)
                         THEN v ELSE split_points[k].end_time]_vars

\* C5's case: the boundary between two rows was edited to 60000 while the
\* first row was not selected, and the first row's start is still 0.
EditedBetweenRows ==
    /\ Len(split_points) = 2
    /\ ~split_points[1].selected
    /\ split_points[1].start_time = Some(0)
    /\ split_points[1].end_time = Some(60000)
    /\ split_points[2].start_time = Some(60000)
    /\ split_points[2].end_time = Some(30000)

AllDigits(s) == \A k \in 1..Len(s) : IsDigit(s[k])

\* The shape HH:MM:SS.mmm: two digits of hours or more, two of minutes, two
\* of seconds, three of milliseconds.
IsTimeShape(time_str) ==
    LET parts == Split(time_str, ":")
    IN  /\ Len(parts) = 3
        /\ Len(Split(parts[3], ".")) = 2
        /\ LET rest == Split(parts[3], ".")
           IN  /\ Len(parts[1]) >= 2 /\ AllDigits(parts[1])
               /\ Len(parts[2]) = 2 /\ AllDigits(parts[2])
               /\ Len(rest[1]) = 2 /\ AllDigits(rest[1])
               /\ Len(rest[2]) = 3 /\ AllDigits(rest[2])

\* C6 as claimed.  An edit whose text is not of the shape HH:MM:SS.mmm (a
\* negative time, fields of other widths, any other text) leaves the whole
\* list unchanged.
EditOfOtherShapeRejected ==
    [][\A row \in 1..Len(split_points), column \in {1, 2},
          time_str \in EditTexts :
        (CellEdited(row, column, time_str) /\ ~IsTimeShape(time_str))
        => split_points' = split_points]_vars

\* C7.  Formatting and parsing are inverses: the text shown in a Start or End
\* cell parses to the boundary it shows, and the Duration cell to the
\* duration, for every value that is not negative.
FormatParseRoundTrip ==
    \A row \in 1..Len(split_points) :
        LET point == split_points[row]
        IN  /\ (point.start_time # None /\ Val(point.start_time) >= 0)
               => parse_time(items[row][1]) = Parsed(Val(point.start_time))
            /\ (point.end_time # None /\ Val(point.end_time) >= 0)
               => parse_time(items[row][2]) = Parsed(Val(point.end_time))
            /\ duration(point) >= 0
               => parse_time(items[row][3]) = Parsed(duration(point))

\* C7's case: a row from 01:01:01.001 to 100:00:00.000, each field of the
\* start carried into and the hours of the end three digits wide.
RowAcrossCarries ==
    /\ Len(split_points) = 1
    /\ split_points[1].start_time = Some(3661001)
    /\ split_points[1].end_time = Some(360000000)
    /\ Len(items[1][2]) = 13

---------------------------------------------------------------------------
(* Properties of the export driver.                                        *)

\* The name <sourceBaseName>_split_<k>.<ext> of the k-th output file.
SplitName(k) == [stem |-> VideoFile.stem, n |-> k, ext |-> VideoFile.ext]

\* An event without the times of an encoder call.
Shown(e) == [ev |-> e.ev, n |-> e.n, total |-> e.total, name |-> e.name]

ShownTrace(tr) == [k \in 1..Len(tr) |-> Shown(tr[k])]

\* What segment k of n is claimed to add to the record of a pass:
\* SegmentStarted(k, name_k), Progress(k-1, n), then the encoder call.
ExpectedSegment(k, n) ==
    << [ev |-> "SegmentStarted", n |-> k, total |-> 0, name |-> SplitName(k)],
       [ev |-> "Progress", n |-> k - 1, total |-> n, name |-> NoName],
       [ev |-> "Encode", n |-> k, total |-> 0, name |-> SplitName(k)] >>

RECURSIVE ExpectedSegments(_, _)
ExpectedSegments(k, n) ==
    IF k = 0 THEN <<>>
    ELSE ExpectedSegments(k - 1, n) \o ExpectedSegment(k, n)

ExpectedPass(n) ==
    ExpectedSegments(n, n)
        \o << [ev |-> "Progress", n |-> n, total |-> n, name |-> NoName],
              [ev |-> "Completed", n |-> 0, total |-> 0, name |-> NoName] >>

\* C8.  A pass over n >= 1 selected intervals in which every output file is
\* written emits, for k = 1..n in order, SegmentStarted(k, name_k) then
\* Progress(k-1, n), both before the encoder call for segment k, then
\* Progress(n, n), then Completed, and nothing else.
SuccessfulPassSignals ==
    (/\ pc = "done"
     /\ Len(selected_points) >= 1
     /\ Cardinality(files) = Len(selected_points))
    => ShownTrace(trace) = ExpectedPass(Len(selected_points))

\* C8's case: a pass over two selected intervals has written both files.
TwoSegmentsWritten ==
    /\ pc = "done"
    /\ Len(selected_points) = 2
    /\ Cardinality(files) = 2

\* The encoder was called for segment j and its file was not written.
EncoderFailedAt(j) ==
    \E k \in 1..Len(trace) :
        /\ trace[k].ev = "Encode"
        /\ trace[k].n = j
        /\ trace[k].name \notin files

Count(tr, ev) == Cardinality({k \in 1..Len(tr) : tr[k].ev = ev})

\* C9.  When the encoder call fails for segment j of n: nothing is signalled
\* and the encoder is not called for the segments after j; the signals and
\* the files of the segments before j stand; one Error is signalled; neither
\* Progress(n, n) nor Completed is.
AbortsAtFailedSegment ==
    \A j \in 1..Len(selected_points) :
        (pc = "done" /\ EncoderFailedAt(j))
        => /\ \A k \in 1..Len(trace) :
                /\ trace[k].ev \in {"SegmentStarted", "Encode"} => trace[k].n <= j
                /\ trace[k].ev = "Progress" => trace[k].n < j
           /\ Len(trace) >= 3 * (j - 1)
           /\ ShownTrace(SubSeq(trace, 1, 3 * (j - 1)))
                = ExpectedSegments(j - 1, Len(selected_points))
           /\ files = {SplitName(k) : k \in 1..(j - 1)}
           /\ Count(trace, "Error") = 1
           /\ Count(trace, "Completed") = 0

\* C9's case: the encoder failed for the first of two selected segments.
FirstOfTwoFailed ==
    /\ pc = "done"
    /\ Len(selected_points) = 2
    /\ EncoderFailedAt(1)

\* C10 as claimed.  After an export pass and after an info query, however
\* they end, the video that was opened has been released.
VideoReleasedOnEveryExit ==
    pc \in {"idle", "done"} => video # "open"

\* split_video was entered without a source path, without an output
\* directory or with no interval to export.
Misconfigured(path, dir, rows) == path = None \/ dir = None \/ rows = <<>>

\* C11 as claimed.  An export attempted without a source path, without an
\* output directory or with no interval selected ends at once: no
\* notification is emitted, the video is not opened, the encoder is not
\* invoked and no file is written.
MisconfiguredExportEmitsNothing ==
    [][(pc = "idle" /\ pc' # "idle"
            /\ Misconfigured(video_path, vs_output_dir, selected_points'))
       => /\ pc' = "done"
          /\ trace' = <<>>
          /\ video' = video
          /\ files' = {}]_vars

\* C11 as amended.  Such an export ends at once with one Error notification
\* and no other notification: the video is not opened, the encoder is not
\* invoked and no file is written.
MisconfiguredExportOnlyReportsError ==
    [][(pc = "idle" /\ pc' # "idle"
            /\ Misconfigured(video_path, vs_output_dir, selected_points'))
       => /\ pc' = "done"
          /\ Len(trace') = 1
          /\ trace'[1].ev = "Error"
          /\ video' = video
          /\ files' = {}]_vars

\* C11's case: split_video has returned from a call made with a source path
\* and two points, neither selected, and without an output directory.
RefusedWithoutDirectory ==
    /\ pc = "done"
    /\ video_path # None
    /\ vs_output_dir = None
    /\ Len(split_points) = 2
    /\ selected_points = <<>>
    /\ Len(trace) = 1

\* The encoder calls of a record, in order, each with its number, its
\* output name and its range.
EncoderCall(e) ==
    [n |-> e.n, name |-> e.name, start_ms |-> e.start_ms, end_ms |-> e.end_ms]

EncoderCalls(tr) ==
    LET calls == SelectSeq(tr, LAMBDA e : e.ev = "Encode")
    IN  [k \in 1..Len(calls) |-> EncoderCall(calls[k])]

\* The pass has ended with Completed.
PassCompleted == pc = "done" /\ trace # <<>> /\ trace[Len(trace)].ev = "Completed"

\* The list holds the one interval that addPoint(t), 0 < t < duration, makes
\* of the empty list.
SinglePointAdded ==
    /\ Len(split_points) = 1
    /\ split_points[1].start_time = Some(0)
    /\ split_points[1].end_time # None
    /\ Val(split_points[1].end_time) > 0
    /\ Val(split_points[1].end_time) < VideoDurationMs

\* When an export gets to its loop, the end of the last interval given to it
\* is the video's duration if it was unset, every other boundary is as it
\* was.
LastEndResolved ==
    (pc = "idle" /\ pc' = "loop")
    => LET last == selected_points'[Len(selected_points')]
       IN  split_points' =
              IF split_points[last].end_time = None
              THEN [split_points EXCEPT
                       ![last].end_time = Some(VideoDurationMs)]
              ELSE split_points

\* C12 as claimed.  At export an unset end of the last selected interval
\* becomes the video's duration, and the export that follows one addPoint(t)
\* on the empty list writes one file whose range is 0 to the duration.
SingleAddExportsToDuration ==
    /\ [][LastEndResolved]_vars
    /\ []((PassCompleted /\ SinglePointAdded)
          => EncoderCalls(trace)
               = << [n |-> 1, name |-> SplitName(1),
                     start_ms |-> 0, end_ms |-> VideoDurationMs] >>)

\* C12 as amended.  At export an unset end of the last selected interval
\* becomes the video's duration; addPoint(t) on the empty list leaves no
\* end unset, and the export that follows it writes one file whose range is
\* 0 to t.
SingleAddExportsToPoint ==
    /\ [][LastEndResolved]_vars
    /\ []((PassCompleted /\ SinglePointAdded)
          => /\ EncoderCalls(trace)
                  = << [n |-> 1, name |-> SplitName(1), start_ms |-> 0,
                        end_ms |-> Val(split_points[1].end_time)] >>
             /\ files = {SplitName(1)})

\* C12's case: the export of the one interval that addPoint(30000) made has
\* ended with Completed.
SingleAddExported ==
    /\ PassCompleted
    /\ SinglePointAdded
    /\ split_points[1].end_time = Some(30 * 1000)

\* The selected intervals of the list, in the list's order.
SelectedIntervals == SelectSeq(split_points, LAMBDA p : p.selected)

\* C13.  An export that ends with Completed has called the encoder once for
\* each selected interval and for no other, in the list's order: the N-th
\* call has the range of the N-th selected interval and the output name
\* <sourceBaseName>_split_<N>.<ext>, so the names of one export differ from
\* one another and are the files written.
EncoderOncePerSelected ==
    PassCompleted
    => /\ EncoderCalls(trace)
            = [N \in 1..Len(SelectedIntervals) |->
                 [n |-> N, name |-> SplitName(N),
                  start_ms |-> Val(SelectedIntervals[N].start_time),
                  end_ms |-> Val(SelectedIntervals[N].end_time)]]
       /\ \A j, k \in 1..Len(EncoderCalls(trace)) :
             j # k => EncoderCalls(trace)[j].name # EncoderCalls(trace)[k].name
       /\ files = {SplitName(N) : N \in 1..Len(SelectedIntervals)}

\* C13's case: an export has ended with Completed for a list of two
\* intervals of which only the second is selected.
SecondOnlyExported ==
    /\ PassCompleted
    /\ Len(split_points) = 2
    /\ ~split_points[1].selected
    /\ split_points[2].selected
    /\ Len(EncoderCalls(trace)) = 1

\* C14 as claimed.  The configured output directory is made when it does
\* not exist, and a failure to make it does not leave the driver with a
\* directory that is not there: whenever the encoder has been called, the
\* output directory exists.
OutputDirExistsAtEncoding ==
    (\E k \in 1..Len(trace) : trace[k].ev = "Encode") => dir_exists

\* C15 as claimed, for the states in which the output directory that was
\* selected exists.  Whenever no export is running, the Start Splitting
\* button is enabled exactly when a video is loaded, an output directory is
\* set and the list of split points is not empty.
ButtonEnabledWhenReady ==
    (pc = "idle" /\ (output_dir # None => dir_exists))
    => (start_splitting_btn
          <=> (/\ current_video_path # None
               /\ output_dir # None
               /\ Len(split_points) > 0))

=============================================================================
